---- MODULE Spec2Model ----
(***************************************************************************)
(* A model of careyke/tapable: Hook (src/lib/Hook.js), the dispatcher      *)
(* compiler HookCodeFactory (src/lib/HookCodeFactory.js) and the           *)
(* AsyncSeriesHook instantiation (src/lib/AsyncSeriesHook.js).             *)
(*                                                                         *)
(* JavaScript values are represented as follows.                           *)
(*   - a tap descriptor is a record [name, type, stage, before, context,   *)
(*     fn];                                                                *)
(*     `stage` is {} when the descriptor has no numeric stage and {n}      *)
(*     when it is the number n; `before` is the set of names of            *)
(*     options.before ({} when absent: an absent and an empty `before`     *)
(*     take the same branches of _insert); `context` is the truthiness of  *)
(*     options.context; `fn` identifies the callback.                      *)
(*   - the JavaScript value undefined stored in the taps array is the      *)
(*     record UndefinedTap.                                                *)
(*   - array index k of the source is position k + 1 of a sequence.        *)
(***************************************************************************)
EXTENDS Integers, Sequences, FiniteSets, TLC

\* ------------------------------------------------------------------ bounds

\* Most taps registered on the hook in the dispatch specification Spec.
MaxTaps == 2
\* Most taps registered in the ordering specification SpecOrder.
MaxOrderTaps == 3
\* Most interceptors registered on the hook.
MaxInterceptors == 1
\* Most compilations of one convention's dispatcher counted between two
\* mutations.
MaxCompiles == 2
\* The count of the dispatches started between two mutations stops here.
MaxCalls == 2
\* Most taps registered in the interceptor specification SpecPipeline.
MaxPipeTaps == 2
\* Most interceptors registered in SpecPipeline.
MaxPipeInterceptors == 2
\* Most context objects created by the dispatches of one behaviour.
MaxContexts == 2
\* Most taps registered in the concurrent specification SpecParallel.
MaxParallelTaps == 3
\* Most taps registered in the registration specification SpecRegistry.
MaxRegistryTaps == 2
\* Most interceptors registered in SpecRegistry.
MaxRegistryInterceptors == 2
\* Most taps registered in the suspension specification SpecSuspended.
MaxSuspendedTaps == 3
\* Most interceptors registered in SpecSuspended.
MaxSuspendedInterceptors == 1
\* Most taps registered in the progress specification SpecLive.
MaxLiveTaps == 2
\* Most calls of tap callbacks a looping dispatch makes.
MaxLoopCalls == 6
\* Most taps registered in the looping specification SpecLoop.
MaxLoopTaps == 2
\* Most taps registered in the repetition specification SpecRepeat.
MaxRepeatTaps == 2
\* Most repeated invocations of completion arguments in one dispatch.
MaxRepeats == 1

\* ------------------------------------------------------------------ inputs

\* Tap names used by registrations.
Names == {"a", "b"}
\* options.stage: absent, or a number.
StageInputs == {{}, {1}, {2}}
\* options.before: absent, a string, or an array of strings.
BeforeInputs == {{}, {"a"}, {"a", "b"}}
\* The three registration entry points tap / tapAsync / tapPromise.
Types == {"sync", "async", "promise"}

VARIABLES
    taps,           \* Hook.taps
    interceptors,   \* Hook.interceptors
    callAsync,      \* Hook.callAsync: the delegate or a compiled dispatcher
    promise,        \* Hook.promise: the delegate or a compiled dispatcher
    _x,             \* Hook._x: the callbacks captured by the last compilation
    d,              \* the dispatch being followed (the latest one started)
    compiles,       \* per convention: compilations since the last mutation
    calls,          \* per convention: dispatches started since the last
                    \* mutation, counted up to MaxCalls
    lastOp,         \* the last operation on the hook and its outcome
    compile,        \* Hook.compile: the COMPILE function the constructor set
    contexts        \* the number of context objects created so far

vars ==
    <<taps, interceptors, callAsync, promise, _x, d, compiles, calls, lastOp,
      compile, contexts>>

\* ---------------------------------------------------------------- Hook.js

\* The value of an entry point (Hook.callAsync, Hook.promise): the delegate
\* that compiles on its first use, or a compiled dispatcher with its code.
NoCode ==
    [type |-> "none", topology |-> "none", units |-> <<>>, call |-> {},
     error |-> {}, done |-> {}, errorHelperUsed |-> FALSE,
     needContext |-> FALSE, withContext |-> {}, loop |-> {},
     syncOnly |-> FALSE]

CALL_ASYNC_DELEGATE == [compiled |-> FALSE, code |-> NoCode]

PROMISE_DELEGATE == [compiled |-> FALSE, code |-> NoCode]

UndefinedTap ==
    [name |-> "", type |-> "undefined", stage |-> {}, before |-> {},
     context |-> FALSE, fn |-> 0]

IsUndefined(t) == t.type = "undefined"

\* `typeof item.stage === "number" ? item.stage : 0` and `x.stage || 0`.
StageOf(t) == IF t.stage = {} THEN 0 ELSE CHOOSE n \in t.stage : TRUE

\* `arr[k] = v` for a 0-based index k <= arr.length.
ArrSet(arr, k, v) ==
    IF k = Len(arr) THEN Append(arr, v) ELSE [arr EXCEPT ![k + 1] = v]

\* Mutant of ScanPast: `xStage >= stage` for `xStage > stage`.
ScanPastEqualStage(x, before, stage) ==
    \/ x.name \in before
    \/ before # {}
    \/ StageOf(x) >= stage

\* Mutant of ScanPast: without the `before.size > 0` test.
ScanPastNoSize(x, before, stage) ==
    \/ x.name \in before
    \/ StageOf(x) > stage

\* Mutant of ScanPast: the stage comparison reversed, `xStage < stage`.
ScanPastLowerStage(x, before, stage) ==
    \/ x.name \in before
    \/ before # {}
    \/ StageOf(x) < stage

\* The conditions under which the loop of Hook._insert goes on past the
\* element x (`continue`): x is named in `before`, or `before` still holds
\* a name, or x has a higher stage.
ScanPast(x, before, stage) ==
    \/ x.name \in before
    \/ before # {}
    \/ StageOf(x) > stage

\* Mutant of _insertLoop: without the shift `this.taps[i + 1] = x`.
RECURSIVE _insertLoopNoShift(_, _, _, _)
_insertLoopNoShift(ts, i, before, stage) ==
    IF i = 0
    THEN [taps |-> ts, i |-> 0, threw |-> FALSE]
    ELSE LET i1 == i - 1
             x == ts[i1 + 1]
         IN  IF IsUndefined(x)
             THEN [taps |-> ts, i |-> i1, threw |-> TRUE]
             ELSE IF ScanPast(x, before, stage)
             THEN _insertLoopNoShift(ts, i1, before \ {x.name}, stage)
             ELSE [taps |-> ts, i |-> i1 + 1, threw |-> FALSE]

\* The while loop of Hook._insert, entered with index i, the array ts, the
\* remaining `before` set and the incoming stage.  Result: the array, the
\* index the loop ends with, and whether reading a property of an undefined
\* element threw.
RECURSIVE _insertLoop(_, _, _, _)
_insertLoop(ts, i, before, stage) ==
    IF i = 0
    THEN [taps |-> ts, i |-> 0, threw |-> FALSE]
    ELSE LET i1 == i - 1
             x == ts[i1 + 1]
             ts1 == ArrSet(ts, i1 + 1, x)
         IN  IF IsUndefined(x)
             THEN [taps |-> ts1, i |-> i1, threw |-> TRUE]
             ELSE IF ScanPast(x, before, stage)
             THEN _insertLoop(ts1, i1, before \ {x.name}, stage)
             ELSE [taps |-> ts1, i |-> i1 + 1, threw |-> FALSE]

\* Hook._insert(item) applied to the array ts: the resulting array and
\* whether the call threw (then the array is left as the loop had it).
_insert(ts, item) ==
    LET r == _insertLoop(ts, Len(ts), item.before, StageOf(item))
    IN  IF r.threw
        THEN [taps |-> r.taps, threw |-> TRUE, at |-> r.i]
        ELSE [taps |-> ArrSet(r.taps, r.i, item), threw |-> FALSE, at |-> r.i]

\* What the modelled `register` handlers return for a tap descriptor:
\*   "wrap"  : Object.assign({}, tap, { fn: wrapped }) for a tap, and the value
\*             it was given when that is undefined;
\*   "undef" : undefined.
RegisterFn(kind, t) ==
    CASE kind = "wrap" ->
            IF IsUndefined(t) THEN UndefinedTap ELSE [t EXCEPT !.fn = @ + 100]
      [] kind = "undef" -> UndefinedTap
      [] OTHER -> t

\* Hook._runRegisterInterceptors(options), over interceptors ics[j..].
RECURSIVE _runRegisterInterceptorsFrom(_, _, _)
_runRegisterInterceptorsFrom(ics, j, options) ==
    IF j > Len(ics)
    THEN options
    ELSE IF ics[j].register # "none"
         THEN LET newOptions == RegisterFn(ics[j].register, options)
              IN  _runRegisterInterceptorsFrom(
                      ics, j + 1,
                      IF ~IsUndefined(newOptions) THEN newOptions ELSE options)
         ELSE _runRegisterInterceptorsFrom(ics, j + 1, options)

_runRegisterInterceptors(ics, options) ==
    _runRegisterInterceptorsFrom(ics, 1, options)

\* String.prototype.trim on the modelled name strings.
Trim(s) ==
    CASE s = " b " -> "b"
      [] s = "  " -> ""
      [] OTHER -> s

\* Mutant of TapError: a string descriptor is tested before it is trimmed.
TapErrorNoTrim(options) ==
    IF options.kind = "string"
    THEN IF options.name = "" THEN "Missing name for tap" ELSE ""
    ELSE IF options.kind # "object"
    THEN "Invalid tap options"
    ELSE IF options.name = "undefined" \/ options.name = ""
    THEN "Missing name for tap"
    ELSE ""

\* The validation part of Hook._tap: the error message it throws for the
\* descriptor, or "" when it accepts it.  A descriptor input is
\* [kind, name, stage, before, context]: kind "string" is a string descriptor (its
\* text in name), "object" an object (name "undefined" when it has no string
\* name), "other" any value that is neither (a number, null, undefined).
TapError(options) ==
    IF options.kind = "string"
    THEN IF Trim(options.name) = "" THEN "Missing name for tap" ELSE ""
    ELSE IF options.kind # "object"
    THEN "Invalid tap options"
    ELSE IF options.name = "undefined" \/ options.name = ""
    THEN "Missing name for tap"
    ELSE ""

\* `options = Object.assign({ type, fn }, options)` of Hook._tap after the
\* string descriptor was turned into { name: options.trim() }.
TapItem(type, options, fn) ==
    IF options.kind = "string"
    THEN [name |-> Trim(options.name), type |-> type, stage |-> {},
          before |-> {}, context |-> FALSE, fn |-> fn]
    ELSE [name |-> options.name, type |-> type, stage |-> options.stage,
          before |-> options.before, context |-> options.context, fn |-> fn]

\* Mutant of _resetCompilation: callAsync is not reset.
_resetCompilationPromiseOnly ==
    /\ promise' = PROMISE_DELEGATE
    /\ UNCHANGED callAsync

\* Hook._resetCompilation: every entry point is the delegate again.  (An
\* AsyncSeriesHook has no `call`: _call and call are undefined.)
_resetCompilation ==
    /\ callAsync' = CALL_ASYNC_DELEGATE
    /\ promise' = PROMISE_DELEGATE

\* A mutation of the hook starts a new count of compilations and calls.
Mutated ==
    /\ compiles' = [async |-> 0, promise |-> 0]
    /\ calls' = [async |-> 0, promise |-> 0]

\* A value that is no tap descriptor (a number, null, undefined).
NoOptions ==
    [kind |-> "other", name |-> "", stage |-> {}, before |-> {},
     context |-> FALSE]

\* The outcome of an operation on the hook: the error it threw ("" when it
\* returned), the number of calls of `register` handlers it made and, for a
\* registration, the descriptor it was given.
Outcome(op, threw, regs, options) ==
    [op |-> op, threw |-> threw, regs |-> regs, options |-> options]

\* Hook._tap(type, options, fn): tap / tapAsync / tapPromise.  The callback
\* registered is a fresh one, identified by the number of the registration.
_tap(type, options) ==
    LET fn == Len(taps) + 1
        err == TapError(options)
    IN  IF err # ""
        THEN /\ lastOp' = Outcome("tap", err, 0, options)
             /\ UNCHANGED <<taps, interceptors, callAsync, promise, _x, d,
                            compiles, calls, compile, contexts>>
        ELSE LET item == _runRegisterInterceptors(
                             interceptors, TapItem(type, options, fn))
                 r == _insert(taps, item)
             IN  /\ _resetCompilation
                 /\ Mutated
                 /\ taps' = r.taps
                 /\ lastOp' = Outcome("tap",
                                      IF r.threw THEN "TypeError" ELSE "",
                                      Cardinality({j \in 1..Len(interceptors) :
                                          interceptors[j].register # "none"}),
                                      options)
                 /\ UNCHANGED <<interceptors, _x, d, compile, contexts>>

\* Mutant of intercept: the taps are passed through the `register` handlers
\* of all the interceptors.
interceptRegisterAll(interceptor) ==
    /\ _resetCompilation
    /\ Mutated
    /\ interceptors' = Append(interceptors, interceptor)
    /\ taps' = IF interceptor.register # "none"
               THEN [k \in 1..Len(taps) |->
                        _runRegisterInterceptors(
                            Append(interceptors, interceptor), taps[k])]
               ELSE taps
    /\ lastOp' = Outcome("intercept", "",
                         IF interceptor.register # "none" THEN Len(taps) ELSE 0,
                         NoOptions)
    /\ UNCHANGED <<_x, d, compile, contexts>>

\* Hook.intercept(interceptor).
intercept(interceptor) ==
    /\ _resetCompilation
    /\ Mutated
    /\ interceptors' = Append(interceptors, interceptor)
    /\ taps' = IF interceptor.register # "none"
               THEN [k \in 1..Len(taps) |->
                        RegisterFn(interceptor.register, taps[k])]
               ELSE taps
    /\ lastOp' = Outcome("intercept", "",
                         IF interceptor.register # "none" THEN Len(taps) ELSE 0,
                         NoOptions)
    /\ UNCHANGED <<_x, d, compile, contexts>>

\* Mutant of isUsed: the interceptors are not looked at.
isUsedTapsOnly == Len(taps) > 0

\* Hook.isUsed().
isUsed == Len(taps) > 0 \/ Len(interceptors) > 0

\* ----------------------------------------------------- HookCodeFactory.js

\* Errors.  The error a tap's own logic raises identifies the tap; the usage
\* error is the Error thrown for a tapPromise callback that returned no
\* promise.  Every error is a truthy value.
NoErr == [kind |-> "none", tap |-> 0]
Err(i) == [kind |-> "tap", tap |-> i]
UsageErr(i) == [kind |-> "usage", tap |-> i]

\* One entry of a dispatch's log: what happened (ev), to which interceptor
\* (icpt, 1-based, 0 when none) and tap (0-based index, -1 when none), with
\* which callback (fn) or error (err), and whether it happened inside the
\* synchronous extent of the callAsync / promise call (sync).  For a call of
\* the completion callback, `args` is the number of arguments it is given;
\* for a call of a tap's callback, `does` is how the callback behaved.  `ctx`
\* is the value of `_context` passed as leading argument: the number of a
\* context object, 0 for undefined, and -1 when no such argument is passed.
Event(ev, icpt, tap, fn, err, sync) ==
    [ev |-> ev, icpt |-> icpt, tap |-> tap, fn |-> fn, err |-> err,
     sync |-> sync, args |-> 0, does |-> "none", ctx |-> -1]

\* The interceptors of ics that define handler h, as indices.
WithHandler(ics, h) == {j \in 1..Len(ics) : ics[j][h]}

\* The indices js in ascending order: the order of a `for` loop over the
\* interceptors.
RECURSIVE Ascending(_)
Ascending(js) ==
    IF js = {}
    THEN <<>>
    ELSE LET m == CHOOSE j \in js : \A k \in js : j <= k
         IN  <<m>> \o Ascending(js \ {m})

\* The calls `_interceptors[j].<ev>(...)` generated for the interceptors js.
InterceptorCalls(js, ev, tap, fn, err, sync) ==
    [k \in 1..Cardinality(js) |->
        Event(ev, Ascending(js)[k], tap, fn, err, sync)]

\* The calls evs with `_context` as leading argument for the interceptors js
\* (`interceptor.context ? "_context" : undefined`).
PassContext(evs, js, context) ==
    [k \in 1..Len(evs) |->
        IF evs[k].icpt \in js THEN [evs[k] EXCEPT !.ctx = context] ELSE evs[k]]

\* HookCodeFactory.setup: instance._x = options.taps.map(t => t.fn).  Reading
\* .fn of an undefined element throws a TypeError.
setupThrows(ts) == \E k \in 1..Len(ts) : IsUndefined(ts[k])

setup(ts) == [k \in 1..Len(ts) |-> ts[k].fn]

\* HookCodeFactory.callTap(tapIndex, ...): the unit generated for one tap.
\* `tap` lists the interceptors whose tap handler is called first; a "sync"
\* tap is called inside try/catch unless rethrowIfPossible.
callTap(ts, ics, tapIndex, rethrowIfPossible) ==
    [type |-> ts[tapIndex + 1].type,
     tap |-> WithHandler(ics, "tap"),
     guarded |-> ts[tapIndex + 1].type = "sync" /\ ~rethrowIfPossible,
     context |-> ts[tapIndex + 1].context]

\* `this.options.taps.findIndex(t => t.type !== "sync")`.
firstAsync(ts) ==
    IF \E k \in 1..Len(ts) : ts[k].type # "sync"
    THEN (CHOOSE k \in 1..Len(ts) :
             /\ ts[k].type # "sync"
             /\ \A l \in 1..(k - 1) : ts[l].type = "sync") - 1
    ELSE -1

\* HookCodeFactory.callTapsSeries: the units of the taps, each one's onDone
\* being the next one's code and the last one's the caller's onDone.  (The
\* `_next<i>` functions it generates are calls of that same continuation.)
callTapsSeries(ts, ics, rethrowIfPossible) ==
    [k \in 1..Len(ts) |->
        callTap(ts, ics, k - 1,
                rethrowIfPossible
                    /\ (firstAsync(ts) < 0 \/ k - 1 < firstAsync(ts)))]

\* AsyncSeriesHookCodeFactory.content: callTapsSeries with
\* onError = onError(err) + doneBreak(true), and no onResult.
content(ts, ics, rethrowIfPossible) ==
    callTapsSeries(ts, ics, rethrowIfPossible)

\* HookCodeFactory.callTapsParallel: with at most one tap it is
\* callTapsSeries; otherwise the units of the taps in a do { } while(false)
\* block around a shared `_counter`, with rethrowIfPossible handed to every
\* callTap as it is.
callTapsParallel(ts, ics, rethrowIfPossible) ==
    IF Len(ts) <= 1
    THEN [topology |-> "series",
          units |-> callTapsSeries(ts, ics, rethrowIfPossible)]
    ELSE [topology |-> "parallel",
          units |-> [k \in 1..Len(ts) |->
                        callTap(ts, ics, k - 1, rethrowIfPossible)]]

\* The content of the concurrent hook: callTapsParallel with
\* onError = onError(err) + doneBreak(true), and onDone.
contentParallel(ts, ics, rethrowIfPossible) ==
    callTapsParallel(ts, ics, rethrowIfPossible)

\* HookCodeFactory.callTapsLooping: without taps it is the caller's onDone;
\* otherwise the code of callTapsSeries (with an onResult that inspects each
\* tap's result, and rethrowIfPossible && syncOnly) inside
\* `do { _loop = false; ... } while(_loop)`, after the calls of the
\* interceptors' loop handlers (`loop`), and inside the function `_looper`
\* unless every tap is "sync" (syncOnly).
callTapsLooping(ts, ics, rethrowIfPossible) ==
    LET syncOnly == \A k \in 1..Len(ts) : ts[k].type = "sync"
    IN  IF Len(ts) = 0
        THEN [topology |-> "series", units |-> <<>>, loop |-> {},
              syncOnly |-> FALSE]
        ELSE [topology |-> "loop",
              units |-> callTapsSeries(ts, ics, rethrowIfPossible /\ syncOnly),
              loop |-> WithHandler(ics, "loop"),
              syncOnly |-> syncOnly]

\* The content of the looping hook: callTapsLooping with
\* onError = onError(err) + doneBreak(true), and onDone.
contentLoop(ts, ics, rethrowIfPossible) ==
    callTapsLooping(ts, ics, rethrowIfPossible)

\* `this.content(options)`: the content method of the factory subclass.
contentOf(factory, ts, ics, rethrowIfPossible) ==
    CASE factory = "AsyncSeriesHookCodeFactory" ->
            [topology |-> "series",
             units |-> content(ts, ics, rethrowIfPossible),
             loop |-> {}, syncOnly |-> FALSE]
      [] factory = "AsyncParallelHookCodeFactory" ->
            LET c == contentParallel(ts, ics, rethrowIfPossible)
            IN  [topology |-> c.topology, units |-> c.units,
                 loop |-> {}, syncOnly |-> FALSE]
      [] OTHER -> contentLoop(ts, ics, rethrowIfPossible)

\* Mutant of contentWithInterceptors: the code of the call handlers is
\* dropped when content() is the bare onDone of a hook without taps.
contentWithInterceptorsNoCallWhenEmpty(factory, ts, ics, rethrowIfPossible) ==
    LET c == contentOf(factory, ts, ics, rethrowIfPossible)
    IN  [topology |-> c.topology,
         units |-> c.units,
         loop |-> c.loop,
         syncOnly |-> c.syncOnly,
         call |-> IF Len(ts) = 0 THEN {} ELSE WithHandler(ics, "call"),
         error |-> WithHandler(ics, "error"),
         done |-> WithHandler(ics, "done")]

\* HookCodeFactory.contentWithInterceptors: the interceptors whose call,
\* error and done handlers the generated code invokes, around content().
contentWithInterceptors(factory, ts, ics, rethrowIfPossible) ==
    LET c == contentOf(factory, ts, ics, rethrowIfPossible)
    IN  [topology |-> c.topology,
         units |-> c.units,
         loop |-> c.loop,
         syncOnly |-> c.syncOnly,
         call |-> WithHandler(ics, "call"),
         error |-> WithHandler(ics, "error"),
         done |-> WithHandler(ics, "done")]

\* Mutant of needContext: only the first tap is looked at.
needContextFirstTap(ts) == Len(ts) > 0 /\ ts[1].context

\* HookCodeFactory.needContext: some tap of options.taps has a truthy
\* `context`.
needContext(ts) == \E k \in 1..Len(ts) : ts[k].context

\* HookCodeFactory.create(options) for type "async" and "promise".  Neither
\* passes rethrowIfPossible.  errorHelperUsed: onError was called while the
\* code was generated, which every generated unit does.  header():
\* `var _context = {}` when needContext(), `var _context` otherwise;
\* withContext are the interceptors with a truthy `context`.
create(factory, type, ts, ics) ==
    LET c == contentWithInterceptors(factory, ts, ics, FALSE)
    IN  [type |-> type, topology |-> c.topology, units |-> c.units,
         call |-> c.call, error |-> c.error, done |-> c.done,
         errorHelperUsed |-> type = "promise" /\ Len(c.units) > 0,
         needContext |-> needContext(ts),
         withContext |-> WithHandler(ics, "context"),
         loop |-> c.loop, syncOnly |-> c.syncOnly]

\* ------------------------------------------- the generated dispatcher, run

\* The returned promise of the "promise" convention: pending, fulfilled,
\* rejected with err, or "following": resolved with the promise
\* Promise.resolve().then(() => { throw err }), which rejects it with err in
\* a later microtask.
NoHandle == [state |-> "none", err |-> NoErr]

\* No dispatch has been started.  Of a dispatch, regTaps and regInterceptors
\* record the hook's taps and interceptors when it started, and prevX the
\* value Hook._x had before the call that started it.  Of a looping
\* dispatch, _loop and _loopAsync are the variables of the latest invocation
\* of the loop-runner, `looping` tells whether control is still inside that
\* invocation's do/while, and `passes` counts the passes started.  `repeats`
\* counts the repeated invocations of completion arguments.
NoDispatch ==
    [pc |-> "idle", conv |-> "none", code |-> NoCode, x |-> <<>>, i |-> 0,
     sync |-> FALSE, _sync |-> FALSE, log |-> <<>>, handle |-> NoHandle,
     thrown |-> NoErr, regTaps |-> <<>>, regInterceptors |-> <<>>,
     prevX |-> <<>>, context |-> 0, prevContext |-> 0, counter |-> 0,
     waiting |-> {}, _loop |-> FALSE, _loopAsync |-> FALSE,
     looping |-> FALSE, passes |-> 0, repeats |-> 0]

\* Mutant of ResolveRethrowing: the promise resolved with returns the error
\* instead of throwing it.
ResolveReturning(h, err) ==
    IF h.state = "pending" THEN [state |-> "fulfilled", err |-> NoErr] ELSE h

\* `_resolve(value)` / `_reject(err)` of the promise executor: a promise
\* that is no longer pending ignores them.
Resolve(h) == IF h.state = "pending" THEN [state |-> "fulfilled", err |-> NoErr] ELSE h
ResolveRethrowing(h, err) ==
    IF h.state = "pending" THEN [state |-> "following", err |-> err] ELSE h
Reject(h, err) ==
    IF h.state = "pending" THEN [state |-> "rejected", err |-> err] ELSE h

\* The synchronous extent of the entry call ends: the stack unwinds to the
\* end of the generated function, where the promise convention runs
\* `_sync = false` when it generated the _error helper.
Unwind(dd) == [dd EXCEPT !.sync = FALSE, !._sync = FALSE]

\* The onError code of create(), wrapped by contentWithInterceptors: every
\* interceptor's error handler, then `_callback(err)` ("async") or
\* `_error(err)` ("promise").
onError(dd, err) ==
    LET log1 == dd.log \o InterceptorCalls(dd.code.error, "error", -1, 0, err,
                                           dd.sync)
    IN  Unwind(
          IF dd.conv = "async"
          THEN [dd EXCEPT !.pc = "end",
                          !.log = log1 \o <<[Event("callback", 0, -1, 0, err,
                                                   dd.sync)
                                                EXCEPT !.args = 1]>>]
          ELSE [dd EXCEPT !.pc = "end",
                          !.log = log1 \o <<Event("_error", 0, -1, 0, err,
                                                  dd.sync)>>,
                          !.handle = IF dd._sync
                                     THEN ResolveRethrowing(dd.handle, err)
                                     ELSE Reject(dd.handle, err)])

\* Mutant of onDone: the done handlers follow the caller's onDone.
onDoneSignalFirst(dd) ==
    LET handlers == InterceptorCalls(dd.code.done, "done", -1, 0, NoErr,
                                     dd.sync)
    IN  Unwind(
          IF dd.conv = "async"
          THEN [dd EXCEPT !.pc = "end",
                          !.log = (@ \o <<Event("callback", 0, -1, 0, NoErr,
                                                dd.sync)>>) \o handlers]
          ELSE [dd EXCEPT !.pc = "end",
                          !.log = (@ \o <<Event("_resolve", 0, -1, 0, NoErr,
                                                dd.sync)>>) \o handlers,
                          !.handle = Resolve(dd.handle)])

\* The onDone code of create(), wrapped by contentWithInterceptors: every
\* interceptor's done handler, then `_callback()` or `_resolve()`.
onDone(dd) ==
    LET log1 == dd.log \o InterceptorCalls(dd.code.done, "done", -1, 0, NoErr,
                                           dd.sync)
    IN  Unwind(
          IF dd.conv = "async"
          THEN [dd EXCEPT !.pc = "end",
                          !.log = log1 \o <<Event("callback", 0, -1, 0, NoErr,
                                                  dd.sync)>>]
          ELSE [dd EXCEPT !.pc = "end",
                          !.log = log1 \o <<Event("_resolve", 0, -1, 0, NoErr,
                                                  dd.sync)>>,
                          !.handle = Resolve(dd.handle)])

\* An exception leaves the generated code.  Inside the synchronous extent
\* it reaches the caller of callAsync, or makes the promise executor throw,
\* which rejects the returned promise; `_sync = false` is not run.  In a
\* continuation it goes to whoever invoked the continuation.
Throw(dd, err) ==
    [dd EXCEPT !.pc = "end",
               !.thrown = err,
               !.log = @ \o <<Event("throw", 0, dd.i, 0, err, dd.sync)>>,
               !.handle = IF dd.conv = "promise" /\ dd.sync
                          THEN Reject(dd.handle, err)
                          ELSE dd.handle,
               !.sync = FALSE]

\* Mutant of done: the caller's onDone is every tap's onDone.
doneFirst(dd) ==
    onDone([dd EXCEPT !.log = @ \o <<Event("ok", 0, dd.i, 0, NoErr, dd.sync)>>])

\* The onDone of tap i handed to callTap by callTapsSeries: the code of the
\* next tap, or the caller's onDone after the last one.
done(dd) ==
    LET log1 == dd.log \o <<Event("ok", 0, dd.i, 0, NoErr, dd.sync)>>
    IN  IF dd.i + 1 < Len(dd.code.units)
        THEN [dd EXCEPT !.pc = "start", !.i = dd.i + 1, !.log = log1]
        ELSE onDone([dd EXCEPT !.log = log1])

\* Mutant of fail: doneBreak(false), which adds the caller's onDone.
failAndDone(dd, err) ==
    onDone(onError([dd EXCEPT !.log = @ \o <<Event("fail", 0, dd.i, 0, err,
                                                   dd.sync)>>],
                   err))

\* The onError of tap i handed to callTap by callTapsSeries.
fail(dd, err) ==
    onError([dd EXCEPT !.log = @ \o <<Event("fail", 0, dd.i, 0, err, dd.sync)>>],
            err)

\* Mutant of Suspend: the code of the next tap follows the call of the
\* callback instead of being in its continuation.
SuspendAndGo(dd) ==
    IF dd.i + 1 < Len(dd.code.units)
    THEN [dd EXCEPT !.pc = "start", !.i = dd.i + 1]
    ELSE Unwind([dd EXCEPT !.pc = "wait"])

\* The tap's callback has returned without signalling: the dispatch is
\* suspended until the callback's completion argument is invoked or its
\* promise settles.
Suspend(dd) == Unwind([dd EXCEPT !.pc = "wait"])

\* How a tap's callback can behave when it is called, by the tap's type.
\*   sync:    it returns, or it throws;
\*   async:   it invokes its completion argument before returning, without
\*            or with an error; it returns and invokes it later; it throws;
\*   promise: it returns a promise, which settles later; it returns a value
\*            that is falsy or has no `then`; it throws.
Behaviours(type) ==
    CASE type = "sync" -> {"return", "throw"}
      [] type = "async" -> {"callback", "callbackError", "later", "throw"}
      [] type = "promise" -> {"promise", "noPromise", "throw"}
      [] OTHER -> {}

\* callTap, case "sync": `_fn<i>(...)`, inside try/catch when guarded.
syncTap(dd, guarded, b) ==
    IF b = "throw"
    THEN IF guarded THEN fail(dd, Err(dd.i)) ELSE Throw(dd, Err(dd.i))
    ELSE done(dd)

\* callTap, case "async": `_fn<i>(..., function(_err<i>) {...})`.
asyncTap(dd, b) ==
    CASE b = "callback" -> done(dd)
      [] b = "callbackError" -> fail(dd, Err(dd.i))
      [] b = "later" -> Suspend(dd)
      [] OTHER -> Throw(dd, Err(dd.i))

\* Mutant of promiseTap: a returned value that is no promise is taken as the
\* tap's completion.
promiseTapUnchecked(dd, b) ==
    CASE b = "promise" -> Suspend(dd)
      [] b = "noPromise" -> done(dd)
      [] OTHER -> Throw(dd, Err(dd.i))

\* callTap, case "promise": `_promise<i> = _fn<i>(...)`, the check that it
\* is a promise, then `_promise<i>.then(onFulfilled, onRejected)`.
promiseTap(dd, b) ==
    CASE b = "promise" -> Suspend(dd)
      [] b = "noPromise" -> Throw(dd, UsageErr(dd.i))
      [] OTHER -> Throw(dd, Err(dd.i))

\* The code callTap generates for tap dd.i, run with the tap's callback
\* behaving as b: the interceptors' tap handlers with `_taps[i]` (an element
\* of the hook's live taps array), then the callback `_x[i]`.
runTap(dd, b) ==
    LET u == dd.code.units[dd.i + 1]
        d1 == [dd EXCEPT !.log =
                  @ \o PassContext(
                         InterceptorCalls(u.tap, "tap", dd.i,
                                          taps[dd.i + 1].fn, NoErr, dd.sync),
                         dd.code.withContext, dd.context)
                    \o <<[Event("fn", 0, dd.i, dd.x[dd.i + 1], NoErr, dd.sync)
                            EXCEPT !.does = b,
                                   !.ctx = IF u.context THEN dd.context
                                           ELSE -1]>>]
    IN  CASE u.type = "sync" -> syncTap(d1, u.guarded, b)
          [] u.type = "async" -> asyncTap(d1, b)
          [] OTHER -> promiseTap(d1, b)

\* Mutant of settle: the success branch of the continuation is empty.
settleWithoutDone(dd, ok) ==
    IF ok
    THEN [dd EXCEPT !.pc = "end",
                    !.log = @ \o <<Event("ok", 0, dd.i, 0, NoErr, dd.sync)>>]
    ELSE fail(dd, Err(dd.i))

\* The continuation callTap attached for the suspended tap dd.i is invoked:
\* the completion argument of an "async" tap without or with an error, the
\* onFulfilled or the onRejected handler of a "promise" tap (whose
\* _hasResult is still false when the promise rejects).
settle(dd, ok) == IF ok THEN done(dd) ELSE fail(dd, Err(dd.i))

\* ------------------------------------- the concurrent dispatcher, run
\* The code of callTapsParallel for more than one tap: `_counter` starts at
\* the number of taps (dd.counter), the taps are started one after the
\* other (dd.i is the next one) and dd.waiting are the taps that were
\* started and have not signalled.

\* What is left of the dispatch once the generated function has returned:
\* the continuations of the taps that have not signalled.
Rest(dd) == IF dd.waiting = {} THEN "end" ELSE "wait"

\* After the code of tap dd.i: `if(_counter <= 0) break;` and the code of
\* the next tap, or the end of the block and of the generated function.
nextTap(dd) ==
    IF dd.sync /\ dd.pc = "start" /\ dd.i + 1 < Len(dd.code.units)
               /\ dd.counter > 0
    THEN [dd EXCEPT !.i = dd.i + 1]
    ELSE [Unwind(dd) EXCEPT !.pc = Rest(dd)]

\* The shared `_done` function: the dispatcher's onDone.
_done(dd) == [onDone(dd) EXCEPT !.pc = dd.pc, !.sync = dd.sync,
                                !._sync = dd._sync]

\* Mutant of parallelDone: `_counter-- === 0`.
parallelDonePostDecrement(dd, i) ==
    LET d1 == [dd EXCEPT !.log = @ \o <<Event("ok", 0, i, 0, NoErr, dd.sync)>>,
                         !.counter = @ - 1]
    IN  nextTap(IF dd.counter = 0 THEN _done(d1) ELSE d1)

\* The `done` of callTapsParallel, tap i's onDone:
\* `if(--_counter === 0) _done();`.
parallelDone(dd, i) ==
    LET d1 == [dd EXCEPT !.log = @ \o <<Event("ok", 0, i, 0, NoErr, dd.sync)>>,
                         !.counter = @ - 1]
    IN  nextTap(IF d1.counter = 0 THEN _done(d1) ELSE d1)

\* The onError the concurrent hook's content hands to callTapsParallel:
\* onError(err) + doneBreak(true), the latter being `_counter = 0;`.
contentParallelOnError(dd, err) ==
    [onError(dd, err) EXCEPT !.counter = 0, !.pc = dd.pc, !.sync = dd.sync,
                             !._sync = dd._sync]

\* Mutant of parallelError: without the `if(_counter > 0)` around onError.
parallelErrorUnguarded(dd, i, err) ==
    nextTap(contentParallelOnError(
                [dd EXCEPT !.log = @ \o <<Event("fail", 0, i, 0, err,
                                               dd.sync)>>],
                err))

\* The onError callTapsParallel hands to callTap for tap i:
\* `if(_counter > 0) { <onError(i, error, done, doneBreak)> }`.
parallelError(dd, i, err) ==
    LET d1 == [dd EXCEPT !.log = @ \o <<Event("fail", 0, i, 0, err, dd.sync)>>]
    IN  nextTap(IF dd.counter > 0 THEN contentParallelOnError(d1, err)
                ELSE d1)

\* An exception leaves the generated function: the taps after dd.i are not
\* started; the continuations of the waiting taps remain.
parallelThrow(dd, err) ==
    [Throw(dd, err) EXCEPT !._sync = dd._sync, !.pc = Rest(dd)]

\* Tap dd.i has returned without signalling: its continuation is pending.
parallelSuspend(dd) == nextTap([dd EXCEPT !.waiting = @ \cup {dd.i}])

\* The code callTap generates for tap dd.i inside callTapsParallel, run with
\* the tap's callback behaving as b.  rethrowIfPossible is not set: a
\* "sync" tap is called inside try/catch.
runParallelTap(dd, b) ==
    LET u == dd.code.units[dd.i + 1]
        d1 == [dd EXCEPT !.log =
                  @ \o PassContext(
                         InterceptorCalls(u.tap, "tap", dd.i,
                                          taps[dd.i + 1].fn, NoErr, dd.sync),
                         dd.code.withContext, dd.context)
                    \o <<[Event("fn", 0, dd.i, dd.x[dd.i + 1], NoErr, dd.sync)
                            EXCEPT !.does = b,
                                   !.ctx = IF u.context THEN dd.context
                                           ELSE -1]>>]
    IN  CASE b \in {"return", "callback"} -> parallelDone(d1, dd.i)
          [] b = "callbackError" -> parallelError(d1, dd.i, Err(dd.i))
          [] b = "throw" /\ u.guarded -> parallelError(d1, dd.i, Err(dd.i))
          [] b = "throw" /\ ~u.guarded -> parallelThrow(d1, Err(dd.i))
          [] b = "noPromise" -> parallelThrow(d1, UsageErr(dd.i))
          [] OTHER -> parallelSuspend(d1)

\* The continuation of the waiting tap i is invoked, with success or with an
\* error.
settleParallel(dd, i, ok) ==
    LET d1 == [dd EXCEPT !.waiting = @ \ {i}]
    IN  IF ok THEN parallelDone(d1, i) ELSE parallelError(d1, i, Err(i))

\* --------------------------------------- the looping dispatcher, run
\* The code of callTapsLooping for at least one tap.

\* The top of the body of the do/while: `_loop = false`, the interceptors'
\* loop handlers, then the code of the first tap.
pass(dd) ==
    [dd EXCEPT !._loop = FALSE, !.pc = "start", !.i = 0, !.passes = @ + 1,
               !.log = @ \o PassContext(
                               InterceptorCalls(dd.code.loop, "loop", -1, 0,
                                                NoErr, dd.sync),
                               dd.code.withContext, dd.context)]

\* `_looper()`: an invocation of the loop-runner, with its own
\* `var _loopAsync = false` and `var _loop`, entering its do/while.
_looper(dd) ==
    pass([dd EXCEPT !._loopAsync = FALSE, !.looping = TRUE,
                    !.log = @ \o <<Event("_looper", 0, -1, 0, NoErr,
                                         dd.sync)>>])

\* Mutant of loopWhile: without `_loopAsync = true` after the loop.
loopWhileUnarmed(dd) ==
    IF ~dd.looping
    THEN dd
    ELSE IF dd._loop
    THEN pass(dd)
    ELSE [dd EXCEPT !.looping = FALSE]

\* Control reaches the end of the body of the do/while it is inside of:
\* `} while(_loop);`, and after the loop `_loopAsync = true` (when the code
\* has a loop-runner).  A continuation invoked after the loop was left has
\* no loop to come back to.
loopWhile(dd) ==
    IF ~dd.looping
    THEN dd
    ELSE IF dd._loop
    THEN pass(dd)
    ELSE [dd EXCEPT !._loopAsync = ~dd.code.syncOnly, !.looping = FALSE]

\* Mutant of loopAgain: `next()` follows the restart request, so that the
\* taps after this one still run in the pass.
loopAgainAndNext(dd) ==
    LET d1 == [dd EXCEPT !._loop = TRUE,
                         !.log = @ \o <<Event("again", 0, dd.i, 0, NoErr,
                                              dd.sync)>>]
    IN  IF dd.i + 1 < Len(dd.code.units)
        THEN [d1 EXCEPT !.pc = "start", !.i = dd.i + 1]
        ELSE IF ~d1.code.syncOnly /\ d1._loopAsync
        THEN _looper(d1)
        ELSE IF d1.looping THEN loopWhile(d1) ELSE [d1 EXCEPT !.pc = "end"]

\* The onResult of callTapsLooping for a result that is not undefined:
\* `_loop = true; if(_loopAsync) _looper();` and doneBreak(true), which is
\* empty: inside the do/while control comes back to `while(_loop)`; after
\* it, and without `_loopAsync`, nothing runs any more.
loopAgain(dd) ==
    LET d1 == [dd EXCEPT !._loop = TRUE,
                         !.log = @ \o <<Event("again", 0, dd.i, 0, NoErr,
                                              dd.sync)>>]
    IN  IF ~d1.code.syncOnly /\ d1._loopAsync
        THEN _looper(d1)
        ELSE IF d1.looping THEN loopWhile(d1) ELSE [d1 EXCEPT !.pc = "end"]

\* The onResult of callTapsLooping for the result undefined: `next()`, the
\* code of the next tap, or after the last tap `if(!_loop) { onDone() }`.
loopDone(dd) ==
    LET log1 == dd.log \o <<Event("ok", 0, dd.i, 0, NoErr, dd.sync)>>
    IN  IF dd.i + 1 < Len(dd.code.units)
        THEN [dd EXCEPT !.pc = "start", !.i = dd.i + 1, !.log = log1]
        ELSE IF ~dd._loop
        THEN loopWhile(onDone([dd EXCEPT !.log = log1]))
        ELSE loopWhile([dd EXCEPT !.pc = "end", !.log = log1])

\* The onError of a tap of the looping dispatcher: onError(err) and
\* doneBreak(true).
loopFail(dd, err) == loopWhile(fail(dd, err))

\* An exception leaves the do/while.
loopThrow(dd, err) == [Throw(dd, err) EXCEPT !.looping = FALSE]

\* The tap's callback has returned without signalling: control comes back
\* to the end of the body of the do/while.
loopSuspend(dd) == loopWhile(Suspend(dd))

\* The number of calls of tap callbacks the dispatch has made.
Started(dd) == Len(SelectSeq(dd.log, LAMBDA e : e.ev = "fn"))

\* The taps ask for another pass only while a whole pass more keeps the
\* calls of tap callbacks within MaxLoopCalls.
MayLoopAgain(dd) == Started(dd) + Len(dd.code.units) <= MaxLoopCalls

\* How a tap's callback can behave in a looping dispatch: as in Behaviours,
\* or giving a result that is not undefined (returning it, or passing it to
\* the completion argument before returning).
LoopBehaviours(type, dd) ==
    Behaviours(type)
        \cup (IF MayLoopAgain(dd)
              THEN CASE type = "sync" -> {"returnAgain"}
                     [] type = "async" -> {"callbackAgain"}
                     [] OTHER -> {}
              ELSE {})

\* The code callTap generates for tap dd.i with the onResult of
\* callTapsLooping, run with the tap's callback behaving as b.
runLoopTap(dd, b) ==
    LET u == dd.code.units[dd.i + 1]
        d1 == [dd EXCEPT !.log =
                  @ \o PassContext(
                         InterceptorCalls(u.tap, "tap", dd.i,
                                          taps[dd.i + 1].fn, NoErr, dd.sync),
                         dd.code.withContext, dd.context)
                    \o <<[Event("fn", 0, dd.i, dd.x[dd.i + 1], NoErr, dd.sync)
                            EXCEPT !.does = b,
                                   !.ctx = IF u.context THEN dd.context
                                           ELSE -1]>>]
    IN  CASE b \in {"return", "callback"} -> loopDone(d1)
          [] b \in {"returnAgain", "callbackAgain"} -> loopAgain(d1)
          [] b = "callbackError" -> loopFail(d1, Err(dd.i))
          [] b \in {"later", "promise"} -> loopSuspend(d1)
          [] b = "noPromise" -> loopThrow(d1, UsageErr(dd.i))
          [] OTHER -> IF u.type = "sync" /\ u.guarded
                      THEN loopFail(d1, Err(dd.i))
                      ELSE loopThrow(d1, Err(dd.i))

\* The continuation attached for the suspended tap dd.i is invoked with the
\* result undefined ("ok"), with another result ("again") or with an error
\* ("fail").
settleLoop(dd, r) ==
    CASE r = "ok" -> loopDone(dd)
      [] r = "again" -> loopAgain(dd)
      [] OTHER -> loopFail(dd, Err(dd.i))

\* The compiled function is called: header(), the interceptors' call
\* handlers, then the content; `new Promise(...)` for the promise convention.
invoke(conv, code, xs) ==
    LET context == IF code.needContext THEN contexts + 1 ELSE 0
        d0 == [pc |-> "start", conv |-> conv, code |-> code, x |-> xs, i |-> 0,
               sync |-> TRUE, _sync |-> code.errorHelperUsed,
               log |-> PassContext(
                           InterceptorCalls(code.call, "call", -1, 0, NoErr,
                                            TRUE),
                           code.withContext, context),
               handle |-> IF conv = "promise"
                          THEN [state |-> "pending", err |-> NoErr]
                          ELSE NoHandle,
               thrown |-> NoErr,
               regTaps |-> taps, regInterceptors |-> interceptors,
               prevX |-> _x,
               context |-> context, prevContext |-> d.context,
               counter |-> IF code.topology = "parallel"
                           THEN Len(code.units) ELSE 0,
               waiting |-> {}, _loop |-> FALSE, _loopAsync |-> FALSE,
               looping |-> FALSE, passes |-> 0, repeats |-> 0]
    IN  IF Len(code.units) = 0
        THEN onDone(d0)
        ELSE IF code.topology = "loop"
        THEN IF code.syncOnly
             THEN pass([d0 EXCEPT !.looping = TRUE])
             ELSE _looper(d0)
        ELSE d0

\* The context objects created so far, after a call of the dispatcher code.
created(code) == IF code.needContext THEN contexts + 1 ELSE contexts

\* COMPILE of AsyncSeriesHook.js, called by Hook._createCall(type) with the
\* hook's taps and interceptors: factory.setup, then factory.create.
COMPILE(type, ts, ics) ==
    [x |-> setup(ts),
     code |-> create("AsyncSeriesHookCodeFactory", type, ts, ics)]

\* The COMPILE of the concurrent hook: the same with the factory whose
\* content is contentParallel.
COMPILE_PARALLEL(type, ts, ics) ==
    [x |-> setup(ts),
     code |-> create("AsyncParallelHookCodeFactory", type, ts, ics)]

\* The COMPILE of the looping hook: the same with the factory whose content
\* is contentLoop.
COMPILE_LOOP(type, ts, ics) ==
    [x |-> setup(ts),
     code |-> create("AsyncSeriesLoopHookCodeFactory", type, ts, ics)]

\* Hook._createCall(type): this.compile({ taps, interceptors, args, type }).
_createCall(type) ==
    CASE compile = "AsyncSeriesHook" -> COMPILE(type, taps, interceptors)
      [] compile = "AsyncParallelHook" ->
            COMPILE_PARALLEL(type, taps, interceptors)
      [] OTHER -> COMPILE_LOOP(type, taps, interceptors)

\* ----------------------------------------------------------------- actions

\* Mutant of store: the delegate calls the compiled dispatcher without
\* keeping it.
storeNothing(conv, fn) == UNCHANGED <<callAsync, promise>>

\* `this.callAsync = ...` / `this.promise = ...` of the delegates.
store(conv, fn) ==
    IF conv = "async"
    THEN callAsync' = fn /\ UNCHANGED promise
    ELSE promise' = fn /\ UNCHANGED callAsync

\* hook.callAsync(...) / hook.promise(...).  Through the delegate
\* (CALL_ASYNC_DELEGATE, PROMISE_DELEGATE) the entry point is first replaced
\* by the compiled dispatcher, unless compiling throws.
Call(conv) ==
    LET slot == IF conv = "async" THEN callAsync ELSE promise
        counted == [calls EXCEPT ![conv] = IF @ < MaxCalls THEN @ + 1 ELSE @]
    IN  IF slot.compiled
        THEN /\ slot.code.needContext => contexts < MaxContexts
             /\ d' = invoke(conv, slot.code, _x)
             /\ contexts' = created(slot.code)
             /\ calls' = counted
             /\ lastOp' = Outcome(conv, "", 0, NoOptions)
             /\ UNCHANGED <<taps, interceptors, callAsync, promise, _x,
                            compiles, compile>>
        ELSE IF setupThrows(taps)
        THEN /\ lastOp' = Outcome(conv, "TypeError", 0, NoOptions)
             /\ UNCHANGED <<taps, interceptors, callAsync, promise, _x, d,
                            compiles, calls, compile, contexts>>
        ELSE LET c == _createCall(conv)
             IN  /\ compiles[conv] < MaxCompiles
                 /\ c.code.needContext => contexts < MaxContexts
                 /\ _x' = c.x
                 /\ store(conv, [compiled |-> TRUE, code |-> c.code])
                 /\ compiles' = [compiles EXCEPT ![conv] = @ + 1]
                 /\ calls' = counted
                 /\ d' = invoke(conv, c.code, c.x)
                 /\ contexts' = created(c.code)
                 /\ lastOp' = Outcome(conv, "", 0, NoOptions)
                 /\ UNCHANGED <<taps, interceptors, compile>>

CallAsync == Call("async")

Promise == Call("promise")

\* The dispatch followed runs the code of its next tap.
RunTap ==
    /\ d.pc = "start"
    /\ d.code.topology = "series"
    /\ \E b \in Behaviours(d.code.units[d.i + 1].type) : d' = runTap(d, b)
    /\ UNCHANGED <<taps, interceptors, callAsync, promise, _x, compiles,
                   calls, lastOp, compile, contexts>>

\* The suspended tap of the dispatch followed signals its completion.
Settle ==
    /\ d.pc = "wait"
    /\ d.code.topology = "series"
    /\ \E ok \in BOOLEAN : d' = settle(d, ok)
    /\ UNCHANGED <<taps, interceptors, callAsync, promise, _x, compiles,
                   calls, lastOp, compile, contexts>>

\* The microtask of the promise the returned promise was resolved with: it
\* throws, and the returned promise is rejected.
Microtask ==
    /\ d.handle.state = "following"
    /\ d' = [d EXCEPT !.handle.state = "rejected"]
    /\ UNCHANGED <<taps, interceptors, callAsync, promise, _x, compiles,
                   calls, lastOp, compile, contexts>>

\* The dispatch followed, of the concurrent dispatcher, starts its next tap.
RunParallelTap ==
    /\ d.pc = "start"
    /\ d.code.topology = "parallel"
    /\ \E b \in Behaviours(d.code.units[d.i + 1].type) :
          d' = runParallelTap(d, b)
    /\ UNCHANGED <<taps, interceptors, callAsync, promise, _x, compiles,
                   calls, lastOp, compile, contexts>>

\* One of the waiting taps of the concurrent dispatch followed signals its
\* completion.
SettleParallel ==
    /\ d.pc = "wait"
    /\ d.code.topology = "parallel"
    /\ \E i \in d.waiting, ok \in BOOLEAN : d' = settleParallel(d, i, ok)
    /\ UNCHANGED <<taps, interceptors, callAsync, promise, _x, compiles,
                   calls, lastOp, compile, contexts>>

\* The descriptors the registrations of Spec use.
OptionInputs ==
    { [NoOptions EXCEPT !.kind = "string", !.name = " b "],
      [NoOptions EXCEPT !.kind = "string", !.name = "  "] }

\* hook.tap / hook.tapAsync / hook.tapPromise.
Tap ==
    /\ Len(taps) < MaxTaps
    /\ \E type \in Types, options \in OptionInputs : _tap(type, options)

\* The interceptors registered: an observer of every event, and two
\* interceptors with a register handler.
NoInterceptor ==
    [register |-> "none", call |-> FALSE, tap |-> FALSE, error |-> FALSE,
     done |-> FALSE, context |-> FALSE, loop |-> FALSE]

InterceptorInputs ==
    { [NoInterceptor EXCEPT !.call = TRUE, !.tap = TRUE, !.error = TRUE,
                            !.done = TRUE],
      [NoInterceptor EXCEPT !.register = "wrap"],
      [NoInterceptor EXCEPT !.register = "undef"] }

\* hook.intercept(interceptor).
Intercept ==
    /\ Len(interceptors) < MaxInterceptors
    /\ \E interceptor \in InterceptorInputs : intercept(interceptor)

\* new Hook(args, name), and `hook.compile = COMPILE` of the function that
\* constructs the hook.
Hook(compileFn) ==
    /\ taps = <<>>
    /\ interceptors = <<>>
    /\ callAsync = CALL_ASYNC_DELEGATE
    /\ promise = PROMISE_DELEGATE
    /\ _x = <<>>
    /\ d = NoDispatch
    /\ compiles = [async |-> 0, promise |-> 0]
    /\ calls = [async |-> 0, promise |-> 0]
    /\ lastOp = Outcome("new", "", 0, NoOptions)
    /\ compile = compileFn
    /\ contexts = 0

\* An AsyncSeriesHook.
Init == Hook("AsyncSeriesHook")

Next ==
    \/ Tap
    \/ Intercept
    \/ CallAsync
    \/ Promise
    \/ RunTap
    \/ Settle
    \/ Microtask

Spec == Init /\ [][Next]_vars

\* Registrations alone: hook.tap with an object descriptor of every
\* combination of name, stage and before, and hook.tapAsync /
\* hook.tapPromise with a string descriptor.
OrderTap ==
    /\ Len(taps) < MaxOrderTaps
    /\ \E name \in Names, stage \in StageInputs, before \in BeforeInputs :
          _tap("sync", [kind |-> "object", name |-> name, stage |-> stage,
                        before |-> before, context |-> FALSE])

OrderTapNamed ==
    /\ Len(taps) < MaxOrderTaps
    /\ \E type \in {"async", "promise"}, name \in Names :
          _tap(type, [NoOptions EXCEPT !.kind = "string", !.name = name])

NextOrder ==
    \/ OrderTap
    \/ OrderTapNamed

SpecOrder == Init /\ [][NextOrder]_vars

\* The hook with interceptors: registrations of a continuation tap, of a
\* direct tap that requests context and of a deferred tap placed before the
\* taps named "a"; interceptors that observe every event, without and with
\* context.
PipeTapInputs ==
    { <<"async", [NoOptions EXCEPT !.kind = "string", !.name = "a"]>>,
      <<"sync", [NoOptions EXCEPT !.kind = "object", !.name = "b",
                                 !.context = TRUE]>>,
      <<"promise", [NoOptions EXCEPT !.kind = "object", !.name = "c",
                                    !.before = {"a"}]>> }

PipeTap ==
    /\ Len(taps) < MaxPipeTaps
    /\ \E in \in PipeTapInputs : _tap(in[1], in[2])

PipeInterceptorInputs ==
    { [NoInterceptor EXCEPT !.call = TRUE, !.tap = TRUE, !.error = TRUE,
                            !.done = TRUE],
      [NoInterceptor EXCEPT !.call = TRUE, !.tap = TRUE, !.error = TRUE,
                            !.done = TRUE, !.context = TRUE] }

PipeIntercept ==
    /\ Len(interceptors) < MaxPipeInterceptors
    /\ \E interceptor \in PipeInterceptorInputs : intercept(interceptor)

NextPipeline ==
    \/ PipeTap
    \/ PipeIntercept
    \/ CallAsync
    \/ Promise
    \/ RunTap
    \/ Settle
    \/ Microtask

SpecPipeline == Init /\ [][NextPipeline]_vars

\* Registrations (hook.tap, hook.tapPromise) and the entry points alone:
\* every kind of descriptor, valid or not, the interceptors with a `register` handler, and calls that
\* compile the dispatchers (their taps are not run).
RegistryOptionInputs ==
    { [NoOptions EXCEPT !.kind = "string", !.name = " b "],
      [NoOptions EXCEPT !.kind = "string", !.name = "  "],
      [NoOptions EXCEPT !.kind = "object", !.name = "a", !.stage = {1}],
      [NoOptions EXCEPT !.kind = "object", !.name = "undefined"],
      [NoOptions EXCEPT !.kind = "object", !.name = ""],
      NoOptions }

RegistryTap ==
    /\ Len(taps) < MaxRegistryTaps
    /\ \E type \in {"sync", "promise"}, options \in RegistryOptionInputs :
          _tap(type, options)

RegistryIntercept ==
    /\ Len(interceptors) < MaxRegistryInterceptors
    /\ \E interceptor \in InterceptorInputs : intercept(interceptor)

NextRegistry ==
    \/ RegistryTap
    \/ RegistryIntercept
    \/ CallAsync
    \/ Promise

SpecRegistry == Init /\ [][NextRegistry]_vars

\* The concurrent hook: registrations of taps of the three kinds, and
\* dispatches.  With at most one tap its dispatcher is the series one.
InitParallel == Hook("AsyncParallelHook")

ParallelTap ==
    /\ Len(taps) < MaxParallelTaps
    /\ \E type \in Types :
          _tap(type, [NoOptions EXCEPT !.kind = "string", !.name = "a"])

NextParallel ==
    \/ ParallelTap
    \/ CallAsync
    \/ Promise
    \/ RunTap
    \/ Settle
    \/ RunParallelTap
    \/ SettleParallel
    \/ Microtask

SpecParallel == InitParallel /\ [][NextParallel]_vars

\* The hook used by a program none of whose callbacks and handlers touches
\* the hook: taps and interceptors are registered only while no dispatch is
\* running synchronously, that is before a dispatch, after it, or while it
\* is suspended in a continuation tap.  Registrations of a continuation tap
\* "a" and of a direct tap "c" placed before the taps named "a"; an
\* interceptor with a `tap` handler.
SuspendedTapInputs ==
    { <<"async", [NoOptions EXCEPT !.kind = "string", !.name = "a"]>>,
      <<"sync", [NoOptions EXCEPT !.kind = "object", !.name = "c",
                                 !.before = {"a"}]>> }

SuspendedTap ==
    /\ d.pc # "start"
    /\ Len(taps) < MaxSuspendedTaps
    /\ \E in \in SuspendedTapInputs : _tap(in[1], in[2])

SuspendedIntercept ==
    /\ d.pc # "start"
    /\ Len(interceptors) < MaxSuspendedInterceptors
    /\ intercept([NoInterceptor EXCEPT !.tap = TRUE])

NextSuspended ==
    \/ SuspendedTap
    \/ SuspendedIntercept
    \/ CallAsync
    \/ RunTap
    \/ Settle

SpecSuspended == Init /\ [][NextSuspended]_vars

\* The hook whose dispatches are followed to their end: taps of the three
\* kinds are registered, and callAsync is called again only when the
\* dispatch followed has ended.  The generated code that is ready to run
\* runs (RunTap), and a tap that was started and has suspended the
\* dispatch signals its completion some time (Settle).
LiveTap ==
    /\ Len(taps) < MaxLiveTaps
    /\ \E type \in Types :
          _tap(type, [NoOptions EXCEPT !.kind = "string", !.name = "a"])

LiveCallAsync ==
    /\ d.pc \in {"idle", "end"}
    /\ CallAsync

NextLive ==
    \/ LiveTap
    \/ LiveCallAsync
    \/ RunTap
    \/ Settle

SpecLive ==
    /\ Init
    /\ [][NextLive]_vars
    /\ WF_vars(RunTap)
    /\ WF_vars(Settle)

\* The hook whose dispatcher is built by callTapsLooping, set up and then
\* called: taps of the three kinds and an interceptor with a `loop` and a
\* `done` handler are registered, then callAsync is called once.
InitLoop == Hook("AsyncSeriesLoopHook")

LoopTap ==
    /\ d.pc = "idle"
    /\ Len(taps) < MaxLoopTaps
    /\ \E type \in Types :
          _tap(type, [NoOptions EXCEPT !.kind = "string", !.name = "a"])

LoopIntercept ==
    /\ d.pc = "idle"
    /\ interceptors = <<>>
    /\ intercept([NoInterceptor EXCEPT !.loop = TRUE, !.done = TRUE])

\* The looping dispatch followed runs the code of its next tap.
RunLoopTap ==
    /\ d.pc = "start"
    /\ d.code.topology = "loop"
    /\ \E b \in LoopBehaviours(d.code.units[d.i + 1].type, d) :
          d' = runLoopTap(d, b)
    /\ UNCHANGED <<taps, interceptors, callAsync, promise, _x, compiles,
                   calls, lastOp, compile, contexts>>

\* The suspended tap of the looping dispatch followed signals its
\* completion.
SettleLoop ==
    /\ d.pc = "wait"
    /\ d.code.topology = "loop"
    /\ \E r \in {"ok", "fail"}
              \cup (IF MayLoopAgain(d) THEN {"again"} ELSE {}) :
          d' = settleLoop(d, r)
    /\ UNCHANGED <<taps, interceptors, callAsync, promise, _x, compiles,
                   calls, lastOp, compile, contexts>>

LoopCallAsync ==
    /\ d.pc = "idle"
    /\ CallAsync

NextLoop ==
    \/ LoopTap
    \/ LoopIntercept
    \/ LoopCallAsync
    \/ RunLoopTap
    \/ SettleLoop

SpecLoop == InitLoop /\ [][NextLoop]_vars

\* The hook with continuation taps that invoke their completion argument
\* more than once: direct and continuation taps, callAsync, and the
\* repeated invocations, made once the code run by the invocations before
\* has ended.
RepeatTap ==
    /\ Len(taps) < MaxRepeatTaps
    /\ \E type \in {"sync", "async"} :
          _tap(type, [NoOptions EXCEPT !.kind = "string", !.name = "a"])

\* The completion argument of a continuation tap that has signalled is
\* invoked once more, without or with an error: the function callTap
\* generated for it runs again.
Resignal ==
    /\ d.pc = "end"
    /\ d.code.topology = "series"
    /\ d.repeats < MaxRepeats
    /\ \E p \in 1..Len(d.log), ok \in BOOLEAN :
          /\ d.log[p].ev \in {"ok", "fail"}
          /\ d.code.units[d.log[p].tap + 1].type = "async"
          /\ d' = settle([d EXCEPT !.i = d.log[p].tap, !.repeats = @ + 1], ok)
    /\ UNCHANGED <<taps, interceptors, callAsync, promise, _x, compiles,
                   calls, lastOp, compile, contexts>>

NextRepeat ==
    \/ RepeatTap
    \/ CallAsync
    \/ RunTap
    \/ Settle
    \/ Resignal

SpecRepeat == Init /\ [][NextRepeat]_vars

\* ------------------------------------------------------------------ claims

\* The position in the tap sequence of the tap registered last (its
\* callback is the one numbered with the number of registrations).
Newest == CHOOSE k \in 1..Len(taps) : taps[k].fn = Len(taps)

\* C1: while no registered tap carries `before`, the tap sequence is sorted
\* by ascending stage (a missing stage counting as 0) and taps of equal
\* stage are in the order of their registration.
C1_SortedByStage ==
    (\A k \in 1..Len(taps) : taps[k].before = {})
        => \A k, l \in 1..Len(taps) :
              k < l => \/ StageOf(taps[k]) < StageOf(taps[l])
                       \/ /\ StageOf(taps[k]) = StageOf(taps[l])
                          /\ taps[k].fn < taps[l].fn

\* C1 witness: three taps without `before` registered with stages 2, 1 and
\* none end in the reverse of their registration order.
C1_Witness ==
    /\ Len(taps) = 3
    /\ \A k \in 1..3 : taps[k].before = {}
    /\ <<taps[1].fn, taps[2].fn, taps[3].fn>> = <<3, 2, 1>>
    /\ <<taps[1].stage, taps[2].stage, taps[3].stage>> = <<{}, {1}, {2}>>

\* C2: a tap registered with a `before` set stands before every tap that
\* was registered earlier and whose name is in that set, at its
\* registration and after every later one.
C2_BeforeEveryNamed ==
    \A k, l \in 1..Len(taps) :
        (taps[k].fn < taps[l].fn /\ taps[k].name \in taps[l].before) => l < k

\* C3: a tap registered with a `before` set holding a name that no tap
\* registered until then has is inserted at index 0, whatever the stages.
C3_UnmatchedBeforeFirst ==
    Len(taps) > 0 =>
        ((\E n \in taps[Newest].before :
             \A l \in 1..Len(taps) : l # Newest => taps[l].name # n)
            => Newest = 1)

\* C3 witness: the third tap, of stage 2 and with before = ["a", "b"] of
\* which only "a" names a registered tap, is first, before taps of lower
\* stage.
C3_Witness ==
    /\ Len(taps) = 3
    /\ Newest = 1
    /\ taps[1].before = {"a", "b"}
    /\ taps[1].stage = {2}
    /\ \A l \in 2..3 : taps[l].name = "a" /\ taps[l].stage = {}

\* The positions of the dispatch's log that hold an event among evs.
At(evs) == {p \in 1..Len(d.log) : d.log[p].ev \in evs}

\* The taps of the dispatch that have signalled successful completion.
Succeeded == {d.log[p].tap : p \in At({"ok"})}

AllSucceeded == Succeeded = 0..(Len(d.code.units) - 1)

\* C4: a dispatch invokes exactly the callbacks of the taps registered when
\* it started, in the registry's order and each the way its kind is called,
\* and the handlers of exactly the interceptors registered then: it never
\* runs a dispatcher compiled for an earlier state of the hook.
C4_DispatchUsesCurrentRegistry ==
    d.pc # "idle" =>
        LET fns == SelectSeq(d.log, LAMBDA e : e.ev = "fn")
            reg == d.regTaps
            ics == d.regInterceptors
        IN  /\ Len(fns) <= Len(reg)
            /\ \A k \in 1..Len(fns) :
                  /\ fns[k].fn = reg[k].fn
                  /\ d.code.units[k].type = reg[k].type
            /\ (d.pc = "end" /\ AllSucceeded) => Len(fns) = Len(reg)
            /\ SelectSeq(d.log, LAMBDA e : e.ev = "call")
                  = InterceptorCalls({j \in 1..Len(ics) : ics[j].call},
                                     "call", -1, 0, NoErr, TRUE)
            /\ \A p \in At({"tap", "error", "done"}) :
                  /\ d.log[p].icpt \in 1..Len(ics)
                  /\ ics[d.log[p].icpt][d.log[p].ev]
            /\ \A p \in At({"fn"}), j \in 1..Len(ics) :
                  ics[j].tap =>
                      \E q \in At({"tap"}) :
                          /\ q < p
                          /\ d.log[q].icpt = j
                          /\ d.log[q].tap = d.log[p].tap

\* C4 witness: a dispatcher had been compiled for the hook's first tap;
\* after a second tap was registered a dispatch invoked both callbacks.
C4_Witness ==
    /\ d.pc = "end"
    /\ d.prevX = <<1>>
    /\ Len(d.regTaps) = 2
    /\ AllSucceeded
    /\ Cardinality(At({"fn"})) = 2

\* C5: between two mutations each convention's dispatcher is compiled at
\* most once, by the first call of that convention, and is the entry point
\* from then on; after a mutation no convention has a compiled dispatcher.
C5_CompiledOncePerMutation ==
    /\ compiles.async = (IF calls.async > 0 THEN 1 ELSE 0)
    /\ compiles.promise = (IF calls.promise > 0 THEN 1 ELSE 0)
    /\ callAsync.compiled <=> calls.async > 0
    /\ promise.compiled <=> calls.promise > 0

\* C5 witness: both conventions were called twice since the last mutation
\* of a hook with a tap, and each was compiled once.
C5_Witness ==
    /\ Len(taps) > 0
    /\ calls.async >= 2
    /\ calls.promise >= 2
    /\ compiles = [async |-> 1, promise |-> 1]

\* C6: in a dispatch of either convention the taps begin in registry order,
\* a tap begins only after the tap before it has signalled successful
\* completion, and at most one tap is in progress at any time.
C6_OneTapAtATime ==
    d.pc # "idle" =>
        /\ \A p \in At({"fn"}) :
              /\ d.log[p].tap = Cardinality({q \in At({"fn"}) : q < p})
              /\ d.log[p].fn = d.x[d.log[p].tap + 1]
              /\ d.log[p].tap > 0 =>
                    \E q \in At({"ok"}) :
                        q < p /\ d.log[q].tap = d.log[p].tap - 1
              /\ Cardinality({q \in At({"fn"}) : q < p})
                    = Cardinality({q \in At({"ok", "fail", "throw"}) : q < p})
        /\ Cardinality(At({"fn"})) - Cardinality(At({"ok", "fail", "throw"}))
              = (IF d.pc = "wait" THEN 1 ELSE 0)

\* C6 witness: a continuation tap and a deferred tap both suspended and
\* both completed, the second having begun outside the synchronous extent
\* of the call.
C6_Witness ==
    /\ d.pc = "end"
    /\ Len(d.code.units) = 2
    /\ d.code.units[1].type = "async"
    /\ d.code.units[2].type = "promise"
    /\ AllSucceeded
    /\ \A p \in At({"ok"}) : ~d.log[p].sync

\* C7: in a callAsync dispatch, once a tap has failed no tap is started any
\* more, the completion callback is invoked with that tap's error, and it is
\* never invoked without an error.
C7_FailureEndsDispatch ==
    d.conv = "async" =>
        \A p \in At({"fail"}) :
            /\ d.pc = "end"
            /\ \A q \in At({"fn"}) : q < p
            /\ \E q \in At({"callback"}) :
                  q > p /\ d.log[q].err = d.log[p].err /\ d.log[q].args = 1
            /\ \A q \in At({"callback"}) : d.log[q].err = d.log[p].err

\* C7 witness: the first of two taps, a deferred one, rejected after it had
\* suspended the dispatch.
C7_Witness ==
    /\ d.conv = "async"
    /\ Len(d.code.units) = 2
    /\ d.code.units[1].type = "promise"
    /\ \E p \in At({"fail"}) : d.log[p].tap = 0 /\ ~d.log[p].sync

\* C8: in a callAsync dispatch the completion callback is invoked at most
\* once; when every tap has succeeded it has been invoked, as the last thing
\* the dispatch did, with no argument; it is invoked without an error only
\* after every tap has succeeded; with no taps it is invoked synchronously
\* inside callAsync.
C8_SuccessCallsBackOnce ==
    d.conv = "async" =>
        /\ Cardinality(At({"callback"})) <= 1
        /\ AllSucceeded =>
              /\ At({"callback"}) = {Len(d.log)}
              /\ d.log[Len(d.log)].err = NoErr
              /\ d.log[Len(d.log)].args = 0
        /\ \A p \in At({"callback"}) :
              d.log[p].err = NoErr =>
                  /\ AllSucceeded
                  /\ \A q \in At({"ok", "fn"}) : q < p
        /\ Len(d.code.units) = 0 =>
              \E p \in At({"callback"}) : d.log[p].sync

\* C8 witness: two taps have succeeded, the last one after a suspension.
C8_Witness ==
    /\ d.conv = "async"
    /\ Len(d.code.units) = 2
    /\ AllSucceeded
    /\ ~d.log[Len(d.log)].sync

\* C9: the promise returned by promise() is settled at most once; it is
\* fulfilled exactly when every tap has succeeded; when a tap's failure was
\* routed it is rejected with that tap's error, directly when routed after
\* a suspension, and through a promise that rethrows the error when routed
\* in the synchronous phase.
C9_PromiseSettledOnce ==
    d.conv = "promise" =>
        /\ Cardinality(At({"_resolve", "_error"})
                       \cup {p \in At({"throw"}) : d.log[p].sync}) <= 1
        /\ d.handle.state = "fulfilled" <=> (d.pc = "end" /\ AllSucceeded)
        /\ d.handle.state = "pending" <=>
              /\ At({"_resolve", "_error"}) = {}
              /\ \A p \in At({"throw"}) : ~d.log[p].sync
        /\ \A p \in At({"fail"}) :
              /\ d.handle.err = d.log[p].err
              /\ IF d.log[p].sync
                 THEN d.handle.state \in {"following", "rejected"}
                 ELSE d.handle.state = "rejected"

\* C9 witness: the second tap failed in the synchronous phase and the
\* returned promise has become rejected.
C9_Witness ==
    /\ d.conv = "promise"
    /\ d.handle.state = "rejected"
    /\ \E p \in At({"fail"}) : d.log[p].tap = 1 /\ d.log[p].sync

\* C10: when a deferred tap's callback returns no promise, the usage error
\* is thrown right after the callback returned: the dispatch has ended with
\* it, nothing follows it (no continuation was attached, no later tap runs)
\* and success is never signalled; with the promise convention in the
\* synchronous phase the returned promise is rejected with it.
C10_UsageErrorEndsDispatch ==
    d.pc # "idle" =>
        /\ \A q \in At({"fn"}) :
              (/\ d.log[q].does = "noPromise"
               /\ d.code.units[d.log[q].tap + 1].type = "promise")
                  => /\ q < Len(d.log)
                     /\ d.log[q + 1].ev = "throw"
                     /\ d.log[q + 1].err = UsageErr(d.log[q].tap)
        /\ \A p \in At({"throw"}) :
            d.log[p].err.kind = "usage" =>
                /\ p = Len(d.log)
                /\ d.pc = "end"
                /\ d.thrown = UsageErr(d.log[p].tap)
                /\ d.log[p - 1].ev = "fn" /\ d.log[p - 1].tap = d.log[p].tap
                /\ d.code.units[d.log[p].tap + 1].type = "promise"
                /\ At({"callback", "_resolve", "_error"}) = {}
                /\ d.handle.state \notin {"fulfilled", "following"}
                /\ (d.conv = "promise" /\ d.log[p].sync)
                      => d.handle = [state |-> "rejected", err |-> d.thrown]

\* C10 witness: the second tap returned no promise after the first tap had
\* suspended the dispatch.
C10_Witness ==
    \E p \in At({"throw"}) :
        /\ d.log[p].err = UsageErr(1)
        /\ ~d.log[p].sync

\* The interceptors registered when the dispatch started that define
\* handler h, in registration order.
Handlers(h) ==
    Ascending({j \in 1..Len(d.regInterceptors) : d.regInterceptors[j][h]})

\* The error raised at position p of the log is delivered on the error
\* channel of the dispatch's calling convention.
Delivered(p) ==
    IF d.conv = "async"
    THEN \E q \in At({"callback"}) :
            q > p /\ d.log[q].err = d.log[p].err /\ d.log[q].args = 1
    ELSE /\ d.handle.state \in {"following", "rejected"}
         /\ d.handle.err = d.log[p].err

\* C11: an error raised by a tap's own logic (a direct tap throws, a
\* continuation tap gives an error to its completion argument or throws
\* synchronously, a deferred tap's promise rejects) is passed to every
\* interceptor's error handler in registration order, and then delivered on
\* the error channel of the calling convention.
C11_TapErrorRouted ==
    d.pc # "idle" =>
        \A p \in At({"fail", "throw"}) :
            (/\ d.log[p].err.kind = "tap"
             /\ d.log[p].ev = "throw" =>
                    d.code.units[d.log[p].tap + 1].type = "async")
                => /\ Len(d.log) >= p + Len(Handlers("error"))
                   /\ \A k \in 1..Len(Handlers("error")) :
                         /\ d.log[p + k].ev = "error"
                         /\ d.log[p + k].icpt = Handlers("error")[k]
                         /\ d.log[p + k].err = d.log[p].err
                   /\ Delivered(p)

\* C12: in every dispatch the interceptors that define `call` have it
\* invoked once each, in registration order, before anything else of the
\* dispatch (any tap handler, any tap callback), also when the hook has no
\* taps.
C12_CallHandlersFirst ==
    d.pc # "idle" =>
        /\ Len(d.log) >= Len(Handlers("call"))
        /\ At({"call"}) = 1..Len(Handlers("call"))
        /\ \A k \in 1..Len(Handlers("call")) :
              d.log[k].icpt = Handlers("call")[k]

\* C12 witness: a dispatch of a hook without taps and with two interceptors
\* that define `call` has ended.
C12_Witness ==
    /\ d.pc = "end"
    /\ Len(d.regTaps) = 0
    /\ Len(Handlers("call")) = 2
    /\ At({"call"}) = {1, 2}

\* The log positions p - n .. p - 1 hold the calls of handler h of the
\* interceptors that define it, in registration order.
HandlersBefore(p, h) ==
    LET n == Len(Handlers(h))
    IN  /\ p > n
        /\ \A k \in 1..n :
              /\ d.log[p - n - 1 + k].ev = h
              /\ d.log[p - n - 1 + k].icpt = Handlers(h)[k]

\* The `tap` handlers are called in registration order after tap i-1 has
\* completed and immediately before the callback of tap i, for the tap
\* position i, and for no tap that is not started.
TapHandlersInPlace ==
    LET n == Len(Handlers("tap"))
    IN  /\ \A p \in At({"fn"}) :
              /\ HandlersBefore(p, "tap")
              /\ \A q \in (p - n)..(p - 1) : d.log[q].tap = d.log[p].tap
              /\ d.log[p].tap > 0 =>
                    /\ p - n - 1 > 0
                    /\ d.log[p - n - 1].ev = "ok"
                    /\ d.log[p - n - 1].tap = d.log[p].tap - 1
        /\ \A q \in At({"tap"}) :
              \E p \in At({"fn"}) :
                  q < p /\ p <= q + n /\ d.log[p].tap = d.log[q].tap

\* C13: for each tap i that is executed, every interceptor that defines
\* `tap` is invoked with the descriptor of tap i, in registration order,
\* after tap i-1 has completed and immediately before the callback of tap
\* i; no `tap` handler is invoked for a tap that is never started.
C13_TapHandlersBeforeEachTap ==
    d.pc # "idle" =>
        /\ TapHandlersInPlace
        /\ \A q \in At({"tap"}) :
              d.log[q].fn = d.regTaps[d.log[q].tap + 1].fn

\* C14: in a dispatch that completes successfully every interceptor's
\* `done` handler is invoked once, in registration order, after the last
\* tap has completed and right before the completion is signalled
\* (`_callback()` or `_resolve()`); in a dispatch in which a tap failed no
\* `done` handler is invoked.
C14_DoneHandlersBeforeCompletion ==
    d.pc # "idle" =>
        LET n == Len(Handlers("done"))
            signals == {p \in At({"callback", "_resolve"}) :
                            d.log[p].err = NoErr}
        IN  /\ \A p \in signals :
                  /\ HandlersBefore(p, "done")
                  /\ Len(d.code.units) > 0 =>
                        /\ p - n - 1 > 0
                        /\ d.log[p - n - 1].ev = "ok"
                        /\ d.log[p - n - 1].tap = Len(d.code.units) - 1
            /\ \A q \in At({"done"}) :
                  \E p \in signals : q < p /\ p <= q + n
            /\ Cardinality(At({"done"})) <= n
            /\ (d.pc = "end" /\ AllSucceeded) => signals # {}
            /\ At({"fail"}) # {} => At({"done"}) = {}

\* C14 witness: a dispatch of two taps with two interceptors that define
\* `done` has completed successfully after a suspension.
C14_Witness ==
    /\ d.pc = "end"
    /\ Len(d.code.units) = 2
    /\ AllSucceeded
    /\ Len(Handlers("done")) = 2
    /\ Cardinality(At({"done"})) = 2
    /\ ~d.log[Len(d.log)].sync

\* C15: intercept(I) appends I as the last interceptor and, when I defines
\* `register`, replaces each registered tap, at its own index, by
\* I.register applied to it once (one call per tap); the number of taps is
\* unchanged and the `register` handlers of the earlier interceptors are
\* not applied again.
C15_InterceptRewritesInPlace ==
    [][Len(interceptors') > Len(interceptors) =>
          LET I == interceptors'[Len(interceptors')]
          IN  /\ interceptors' = Append(interceptors, I)
              /\ Len(taps') = Len(taps)
              /\ \A k \in 1..Len(taps) :
                    taps'[k] = IF I.register # "none"
                               THEN RegisterFn(I.register, taps[k])
                               ELSE taps[k]
              /\ lastOp'.regs = IF I.register # "none" THEN Len(taps) ELSE 0
      ]_vars

\* C15 witness: two interceptors with a `register` handler were registered,
\* the first after the first tap and the second after the second tap: each
\* tap's callback is wrapped twice.
C15_Witness ==
    /\ Len(interceptors) = 2
    /\ \A j \in 1..2 : interceptors[j].register = "wrap"
    /\ Len(taps) = 2
    /\ {taps[1].fn, taps[2].fn} = {201, 202}

\* The descriptors a registration has to refuse: neither a string nor a
\* non-null object, a name that is no string or is empty, a string that is
\* empty once trimmed.
Invalid(options) ==
    \/ options.kind \notin {"string", "object"}
    \/ options.kind = "object" /\ options.name \in {"undefined", ""}
    \/ options.kind = "string" /\ Trim(options.name) = ""

\* C16: a registration with such a descriptor raises an error to its caller
\* and leaves the hook as it was: the same taps and interceptors, no
\* `register` handler called, the compiled dispatchers still in place.
C16_InvalidTapRejected ==
    [][(lastOp'.op = "tap" /\ Invalid(lastOp'.options)) =>
          /\ lastOp'.threw \in {"Invalid tap options", "Missing name for tap"}
          /\ lastOp'.regs = 0
          /\ UNCHANGED <<taps, interceptors, callAsync, promise, _x>>
      ]_vars

\* C16 witness: a registration with a blank string was refused on a hook
\* that has a tap, an interceptor with a `register` handler and a compiled
\* dispatcher.
C16_Witness ==
    /\ lastOp.op = "tap"
    /\ lastOp.options.name = "  "
    /\ lastOp.threw = "Missing name for tap"
    /\ Len(taps) > 0 /\ ~IsUndefined(taps[1])
    /\ Len(interceptors) > 0 /\ interceptors[1].register = "wrap"
    /\ callAsync.compiled

\* C17: isUsed() is false on a fresh hook, stays false as long as nothing is
\* registered, is true once a tap or an interceptor has been registered,
\* and stays true from then on.
C17_IsUsedOnceRegistered ==
    /\ ~isUsed
    /\ [][/\ isUsed => isUsed'
          /\ (taps' # taps \/ interceptors' # interceptors) => isUsed'
          /\ (~isUsed /\ UNCHANGED <<taps, interceptors>>) => ~isUsed'
          /\ ~isUsed => (taps = <<>> /\ interceptors = <<>>)
       ]_vars

\* C17 witness: only an interceptor is registered.
C17_Witness ==
    /\ isUsed
    /\ taps = <<>>
    /\ Len(interceptors) = 1

\* Every `_context` argument of the dispatch's log is passed to a tap or an
\* interceptor that requests context, and is the dispatch's context.
ContextPassed ==
    \A p \in 1..Len(d.log) :
        /\ d.log[p].ev = "fn" =>
              d.log[p].ctx = IF d.regTaps[d.log[p].tap + 1].context
                             THEN d.context ELSE -1
        /\ d.log[p].ev \in {"call", "tap"} =>
              d.log[p].ctx = IF d.regInterceptors[d.log[p].icpt].context
                             THEN d.context ELSE -1
        /\ d.log[p].ev \notin {"fn", "call", "tap"} => d.log[p].ctx = -1

\* C18 as claimed: when a tap or an interceptor of the dispatch requests
\* context, one context object is created for the dispatch, it is the
\* leading argument of every tap and interceptor handler that requests
\* context, and it is not the object of the dispatch before.
C18_ContextWhenAnyoneRequests ==
    d.pc # "idle" =>
        ((\/ \E k \in 1..Len(d.regTaps) : d.regTaps[k].context
          \/ \E j \in 1..Len(d.regInterceptors) : d.regInterceptors[j].context)
            => /\ d.context > 0
               /\ d.context # d.prevContext
               /\ ContextPassed)

\* C18 amended: the context object is created when a tap of the dispatch
\* requests context; it is then the leading argument of every tap and of
\* every interceptor `call` and `tap` handler that requests context, and a
\* new object is created for each dispatch.  When no tap requests context
\* no object is created and the interceptors that request context are
\* passed undefined.
C18_ContextWhenTapRequests ==
    d.pc # "idle" =>
        /\ ContextPassed
        /\ IF \E k \in 1..Len(d.regTaps) : d.regTaps[k].context
           THEN d.context > 0 /\ d.context > d.prevContext
           ELSE d.context = 0

\* C18 witness: the second dispatch of a hook whose second tap requests
\* context, with an interceptor that requests context: both were passed
\* the second context object.
C18_Witness ==
    /\ d.context = 2
    /\ d.prevContext = 1
    /\ \E p \in At({"fn"}) : d.log[p].tap = 1 /\ d.log[p].ctx = 2
    /\ \E p \in At({"tap"}) : d.log[p].tap = 1 /\ d.log[p].ctx = 2
    /\ \E p \in At({"fn"}) : d.log[p].tap = 0 /\ d.log[p].ctx = -1

\* The dispatch followed runs the concurrent dispatcher over N >= 2 taps.
Concurrent == d.pc # "idle" /\ d.code.topology = "parallel"

\* The calls of the dispatch's completion: `_callback(...)`, `_resolve()`
\* or `_error(...)`.
Signals == At({"callback", "_resolve", "_error"})

\* C19: in a concurrent dispatch over continuation taps in which no tap has
\* failed, the taps are started in registry order inside the call of the
\* dispatcher, none waiting for an earlier one to complete, and the
\* completion is signalled once, right when the last of the taps
\* completes, whatever the order of the completions.
C19_AllStartedDoneOnce ==
    (/\ Concurrent
     /\ \A k \in 1..Len(d.code.units) : d.code.units[k].type = "async"
     /\ At({"fail", "throw"}) = {})
        => LET N == Len(d.code.units)
               fns == SelectSeq(d.log, LAMBDA e : e.ev = "fn")
           IN  /\ \A k \in 1..Len(fns) : fns[k].tap = k - 1 /\ fns[k].sync
               /\ d.pc # "start" => Len(fns) = N
               /\ Cardinality(At({"ok"})) = Cardinality(Succeeded)
               /\ Cardinality(Signals) <= 1
               /\ Signals # {} <=> Succeeded = 0..(N - 1)
               /\ \A p \in Signals :
                     /\ p = Len(d.log)
                     /\ d.log[p].err = NoErr
                     /\ d.log[p - 1].ev = "ok"

\* C19 witness: three continuation taps were started, completed in the
\* order 2, 0, 1, and the completion was signalled.
C19_Witness ==
    /\ Concurrent
    /\ d.conv = "async"
    /\ SelectSeq(d.log, LAMBDA e : e.ev \in {"ok", "callback"})
         = << Event("ok", 0, 2, 0, NoErr, FALSE),
              Event("ok", 0, 0, 0, NoErr, FALSE),
              Event("ok", 0, 1, 0, NoErr, FALSE),
              Event("callback", 0, -1, 0, NoErr, FALSE) >>

\* C20: in a concurrent dispatch, once a tap has failed the error is
\* reported once (the only signal of the dispatch), no further tap is
\* started, and the completions that arrive afterwards, successes or
\* failures, signal nothing.
C20_FailureShortCircuits ==
    (Concurrent /\ At({"fail"}) # {})
        => LET f == CHOOSE p \in At({"fail"}) : \A q \in At({"fail"}) : p <= q
           IN  /\ Signals = {f + 1}
               /\ d.log[f + 1].ev = IF d.conv = "async" THEN "callback"
                                    ELSE "_error"
               /\ d.log[f + 1].err = d.log[f].err
               /\ \A p \in At({"fn"}) : p < f
               /\ d.counter <= 0

\* C20 witness: of three taps the second one failed first; afterwards the
\* first one completed and the third one failed.
C20_Witness ==
    /\ Concurrent
    /\ Len(d.code.units) = 3
    /\ d.waiting = {}
    /\ SelectSeq(d.log, LAMBDA e : e.ev \in {"ok", "fail", "callback"})
         = << Event("fail", 0, 1, 0, Err(1), FALSE),
              [Event("callback", 0, -1, 0, Err(1), FALSE) EXCEPT !.args = 1],
              Event("ok", 0, 0, 0, NoErr, FALSE),
              Event("fail", 0, 2, 0, Err(2), FALSE) >>

\* C22 as stated: after any sequence of registrations, `before` or not,
\* every tap of a lower stage stands before every tap of a strictly
\* higher stage.
C22_LowerStageFirst ==
    \A k, l \in 1..Len(taps) :
        StageOf(taps[k]) < StageOf(taps[l]) => k < l

\* C22 as the code has it: a tap stands before a tap of a strictly lower
\* stage only if it was registered with a `before` set; every other pair of
\* taps of different stages is in ascending stage order.
C22_LowerStageFirstUnlessBefore ==
    \A k, l \in 1..Len(taps) :
        (StageOf(taps[k]) < StageOf(taps[l]) /\ l < k)
            => taps[l].before # {}

\* C22 witness: a tap of stage 2 registered with `before` stands first,
\* before the taps of stage 0 and 1 registered without `before`, which are
\* in ascending stage order against the order of their registration.
C22_Witness ==
    /\ Len(taps) = 3
    /\ taps[1].before # {} /\ taps[1].stage = {2}
    /\ taps[2].before = {} /\ taps[2].stage = {}
    /\ taps[3].before = {} /\ taps[3].stage = {1}
    /\ taps[3].fn < taps[2].fn

\* C23: a `register` handler that returns undefined leaves the tap it was
\* given unchanged in the tap sequence: a registration made while every
\* `register` handler returns undefined places the descriptor as it was
\* built from the arguments, and an intercept() whose `register` handler
\* returns undefined leaves the tap sequence as it was.
C23_UndefinedRegisterKeepsTap ==
    [][/\ (/\ lastOp'.op = "tap" /\ lastOp'.threw = ""
           /\ Len(taps') = Len(taps) + 1
           /\ \A j \in 1..Len(interceptors) :
                  interceptors[j].register \in {"none", "undef"})
          => \E k \in 1..Len(taps') :
                /\ ~IsUndefined(taps'[k])
                /\ taps'[k].fn = Len(taps) + 1
                /\ taps'[k].name = Trim(lastOp'.options.name)
       /\ (/\ Len(interceptors') = Len(interceptors) + 1
           /\ interceptors'[Len(interceptors')].register = "undef")
          => taps' = taps]_vars

\* C25: every successful registration makes the tap sequence one element
\* longer: the new tap stands at one position, and the taps registered
\* before are all there, each once, in the relative order they had.
C25_RegistrationKeepsOrder ==
    [][(lastOp'.op = "tap" /\ lastOp'.threw = "" /\ taps' # taps)
          => /\ Len(taps') = Len(taps) + 1
             /\ \E at \in 1..Len(taps') :
                   /\ \A k \in 1..Len(taps) : taps'[at] # taps[k]
                   /\ \A k \in 1..Len(taps) :
                         taps[k] = taps'[IF k < at THEN k ELSE k + 1]]_vars

\* C25 witness: the third tap was placed between the two registered
\* before it, which are still in the order they had (the second before
\* the first).
C25_Witness ==
    /\ Len(taps) = 3
    /\ Newest = 2
    /\ taps[1].fn = 2
    /\ taps[3].fn = 1

\* C27: a dispatch is not affected by the taps registered while it is
\* suspended: the callbacks it invokes are those of the taps registered
\* when it started, in their order, and the descriptor passed to the `tap`
\* handlers at a position is the descriptor of the tap whose callback is
\* invoked at that position.
C27_SuspendedDispatchUnaffected ==
    d.pc # "idle" =>
        /\ \A p \in At({"fn"}) :
              d.log[p].fn = d.regTaps[d.log[p].tap + 1].fn
        /\ \A q \in At({"tap"}), p \in At({"fn"}) :
              d.log[q].tap = d.log[p].tap => d.log[q].fn = d.log[p].fn

\* C28: when every tap that is started signals its completion once (no
\* continuation or deferred tap's callback throws, every deferred tap
\* returns a promise), every callAsync dispatch eventually invokes its
\* completion callback; and while the tap in progress has not signalled,
\* the callback has not been invoked and no later tap has been started.
C28_EveryDispatchCompletes ==
    /\ [](d.conv = "async" /\ d.pc = "wait"
             => /\ At({"callback"}) = {}
                /\ \A p \in At({"fn"}) : d.log[p].tap <= d.i
                /\ \A p \in At({"ok", "fail"}) : d.log[p].tap < d.i)
    /\ (d.conv = "async") ~> (At({"callback"}) # {} \/ At({"throw"}) # {})

\* C28 witness: a deferred tap and a continuation tap both suspended the
\* dispatch and signalled later, and the completion callback was invoked
\* after the second one.
C28_Witness ==
    /\ d.conv = "async"
    /\ d.pc = "end"
    /\ Len(d.code.units) = 2
    /\ d.code.units[1].type = "promise"
    /\ d.code.units[2].type = "async"
    /\ \A p \in At({"fn"}) : d.log[p].does \in {"promise", "later"}
    /\ d.log[Len(d.log)].ev = "callback"
    /\ d.log[Len(d.log)].err = NoErr

\* The dispatch followed runs the code of callTapsLooping.
Looping == d.pc # "idle" /\ d.code.topology = "loop"

\* The positions of the log after position p.
After(p) == (p + 1)..Len(d.log)

\* Some pass was a full one: after the start of its first tap every tap
\* has returned undefined and nothing else was signalled.
FullPass ==
    \E s \in At({"fn"}) :
        /\ d.log[s].tap = 0
        /\ At({"again", "fail", "throw"}) \cap After(s) = {}
        /\ {d.log[p].tap : p \in At({"ok"}) \cap After(s)}
              = 0..(Len(d.code.units) - 1)

\* C21: in a looping dispatch, a tap's result other than undefined skips
\* the taps after it and restarts the sequence at tap 0; a tap's result
\* undefined lets the next tap run; the completion callback is invoked at
\* most once, without an error exactly when a full pass had every tap
\* return undefined, and then with no argument and as the last thing; every
\* interceptor's loop handler runs once at the start of every pass, before
\* the first tap.
C21_LoopRestartsUntilQuiet ==
    Looping =>
        /\ \A p \in At({"again"}) :
              /\ (At({"ok", "again", "fail", "throw"}) \cap After(p) = {})
                    => d.pc \in {"start", "wait"}
              /\ (At({"fn"}) \cap After(p) = {}) => (d.pc = "start" /\ d.i = 0)
              /\ \A q \in At({"fn"}) \cap After(p) :
                    (\A r \in At({"fn"}) \cap After(p) : q <= r)
                        => d.log[q].tap = 0
        /\ \A p \in At({"ok"}) :
              \A q \in At({"fn"}) \cap After(p) :
                  (\A r \in At({"fn"}) \cap After(p) : q <= r)
                      => d.log[q].tap = d.log[p].tap + 1
        /\ Cardinality(At({"callback"})) <= 1
        /\ (\E p \in At({"callback"}) : d.log[p].err = NoErr) <=> FullPass
        /\ \A p \in At({"callback"}) :
              d.log[p].err = NoErr => (d.log[p].args = 0 /\ p = Len(d.log))
        /\ \A j \in d.code.loop :
              Cardinality({p \in At({"loop"}) : d.log[p].icpt = j})
                  = 1 + Cardinality(At({"again"}))
        /\ \A p \in At({"loop"}) :
              /\ p > 1 => d.log[p - 1].ev \in {"loop", "_looper", "again",
                                               "call"}
              /\ p < Len(d.log) =>
                    \/ d.log[p + 1].ev = "loop"
                    \/ d.log[p + 1].ev \in {"tap", "fn"} /\ d.log[p + 1].tap = 0

\* C21 witness: with an interceptor's loop handler and two taps, the first
\* pass was restarted by the first tap, the second pass by the second tap
\* after the first one had suspended the dispatch, and the third pass was a
\* full one and was followed by the completion callback.
C21_Witness ==
    /\ Looping
    /\ d.pc = "end"
    /\ Len(d.code.units) = 2
    /\ d.code.loop # {}
    /\ Cardinality(At({"again"})) = 2
    /\ [k \in 1..2 |-> SelectSeq(d.log, LAMBDA e : e.ev = "again")[k].tap]
          = <<0, 1>>
    /\ \E p \in At({"fn"}) : d.log[p].does = "later"
    /\ FullPass
    /\ d.log[Len(d.log)].ev = "callback"

\* The latest invocation of the loop-runner before position p of the log.
LooperBefore(p) ==
    CHOOSE l \in At({"_looper"}) :
        l < p /\ \A m \in At({"_looper"}) : m < p => m <= l

\* The signal at position p of the log arrives while the do/while of the
\* latest invocation of the loop-runner is still running: no tap started
\* since that invocation has returned without signalling.
InsideLooper(p) ==
    \A q \in At({"fn"}) :
        (LooperBefore(p) < q /\ q < p) => d.log[q].does \notin {"later", "promise"}

\* C24: in a looping dispatch with a tap that is not direct, a result other
\* than undefined restarts the tap sequence once: when it arrives inside the
\* do/while of the loop-runner the loop iterates and the loop-runner is not
\* invoked; when it arrives after the do/while was left the loop-runner is
\* invoked once.  Every such signal starts a pass, and a signal never finds
\* both the loop running and `_loopAsync` set.
C24_LoopAgainRestartsOnce ==
    (Looping /\ ~d.code.syncOnly) =>
        /\ \A p \in At({"again"}) :
              /\ InsideLooper(p) =>
                    (p < Len(d.log) => d.log[p + 1].ev # "_looper")
              /\ ~InsideLooper(p) =>
                    /\ p < Len(d.log)
                    /\ d.log[p + 1].ev = "_looper"
              /\ (At({"ok", "again", "fail", "throw"}) \cap After(p) = {})
                    => d.pc \in {"start", "wait"}
        /\ \A l \in At({"_looper"}) :
              l > 1 => \/ d.log[l - 1].ev = "call"
                       \/ d.log[l - 1].ev = "again" /\ ~InsideLooper(l - 1)
        /\ d.passes = 1 + Cardinality(At({"again"}))
        /\ Cardinality({p \in At({"fn"}) : d.log[p].tap = 0})
              = d.passes - (IF d.pc = "start" /\ d.i = 0 THEN 1 ELSE 0)
        /\ ~(d.looping /\ d._loopAsync)

\* C24 witness: of two restart signals of a dispatch that has completed,
\* the first arrived inside the do/while of the loop-runner, from a
\* continuation tap that invoked its completion argument before returning,
\* and the second after the do/while was left, and the loop-runner was
\* invoked a second time for the second one only.
C24_Witness ==
    /\ Looping
    /\ ~d.code.syncOnly
    /\ d.pc = "end"
    /\ Cardinality(At({"again"})) = 2
    /\ Cardinality(At({"_looper"})) = 2
    /\ \E p, q \in At({"again"}) :
          /\ p < q
          /\ InsideLooper(p)
          /\ d.log[p - 1].does = "callbackAgain"
          /\ ~InsideLooper(q)
    /\ d.log[Len(d.log)].ev = "callback"
    /\ d.log[Len(d.log)].err = NoErr

\* C26: in a callAsync dispatch the completion callback is invoked at most
\* once and every tap's callback is called at most once, also when a
\* continuation tap invokes its completion argument more than once.
C26_OnceWhateverTheTapsDo ==
    d.conv = "async" =>
        /\ Cardinality(At({"callback"})) <= 1
        /\ \A i \in 0..(Len(d.code.units) - 1) :
              Cardinality({p \in At({"fn"}) : d.log[p].tap = i}) <= 1

====
